---- MODULE Spec2Model ----
(***************************************************************************)
(* A model of the MeritFlow service (backend/app/main.py) and of the CSV   *)
(* to JSON seed converter (csv_to_json_cloudant.py).                       *)
(*                                                                         *)
(* Text is modelled as a sequence of one-character strings, so that        *)
(* formatting, trimming, splitting and parsing are computed and not        *)
(* assumed.  Python's None is the empty wrapper <<>> of an optional value  *)
(* and Some(x) is <<x>>.                                                   *)
(***************************************************************************)
EXTENDS Integers, Sequences, FiniteSets, TLC

VARIABLES
    now,        \* the wall clock, in ticks (TicksPerSec ticks to the second)
    store,      \* the kudos_log database: a set of [key, doc]
    req,        \* the inbound API calls: req[r] is call r's state
    val,        \* list normalizer: the cell handed to it
    fn,         \* list normalizer: which function ran ("none" before)
    out,        \* list normalizer: what it returned
    dir,        \* converter: DATA_DIR, [exists, files: name -> None or Some(file)]
    pos,        \* converter: how many files of the sorted list are handled
    written,    \* converter: OUT_DIR, source name -> None or Some(records)
    run,        \* converter: "init", "loop", "done" or the exception raised
    build       \* converter: what the pandas build does to NaN in a float column

apiVars  == <<now, store, req>>
normVars == <<val, fn, out>>
convVars == <<dir, pos, written, run, build>>
vars     == <<now, store, req, val, fn, out, dir, pos, written, run, build>>

(***************************************************************************)
(* Bounds of the model.                                                    *)
(***************************************************************************)
NCalls      == 1    \* inbound API calls of any kind in flight together
NWriters    == 2    \* create_kudos calls in flight together
MaxClock    == 2    \* last tick of the clock
TicksPerSec == 2    \* clock readings that fall in one epoch second
MaxLen      == 5    \* longest cell text handed to the list normalizer
MaxRows     == 2    \* most rows in one source file
MaxFiles    == 2    \* most files in DATA_DIR

(***************************************************************************)
(* Text helpers.                                                           *)
(***************************************************************************)
DigitChars == <<"0", "1", "2", "3", "4", "5", "6", "7", "8", "9">>

RECURSIVE DecStr(_)
\* str(n) / f"{n}" of an int n >= 0
DecStr(n) ==
    IF n < 10 THEN <<DigitChars[n + 1]>>
    ELSE DecStr(n \div 10) \o <<DigitChars[(n % 10) + 1]>>

None == <<>>
Some(x) == <<x>>

(***************************************************************************)
(* backend/app/main.py: the API surface and the document-store gateway.    *)
(***************************************************************************)
DB_COURSE == "course_catalog"
DB_EVENTS == "work_events"
DB_KUDOS  == "kudos_log"
DB_PULSE  == "pulse_aggregates"

\* What the identity endpoint and the store may answer.  Both are outside the
\* program: every answer is possible at every call.
IamStatuses  == {200, 401}
StoreAnswers ==
    { [status |-> 200, text |-> "{\"ok\":true}"],
      [status |-> 201, text |-> "{\"ok\":true}"],
      [status |-> 202, text |-> "{\"ok\":true}"],
      [status |-> 409, text |-> "{\"error\":\"conflict\"}"],
      [status |-> 500, text |-> "{\"error\":\"internal_server_error\"}"] }

\* The query-string limits a client may send.
Limits == {10, 50, 52, 100}

\* Valid KudosCreate bodies (values_tags and related_event_id are Optional).
KudosBodies ==
    { [from_employee_id |-> "E1", to_employee_id |-> "E2", manager_id |-> "M1",
       team_id |-> "T1", message |-> "thanks", values_tags |-> None,
       related_event_id |-> None],
      [from_employee_id |-> "E2", to_employee_id |-> "E1", manager_id |-> "M1",
       team_id |-> "T1", message |-> "great work",
       values_tags |-> Some(<<"teamwork">>), related_event_id |-> Some("log_7")] }

EmptyBody ==
    [from_employee_id |-> "", to_employee_id |-> "", manager_id |-> "",
     team_id |-> "", message |-> "", values_tags |-> None,
     related_event_id |-> None]

EmptyDoc ==
    [_id |-> <<>>, kudos_id |-> <<>>, created_at |-> <<>>, approval_status |-> "",
     from_employee_id |-> "", to_employee_id |-> "", manager_id |-> "",
     team_id |-> "", message |-> "", values_tags |-> <<>>,
     related_event_id |-> None]

EmptyFind == [db |-> "", selector |-> <<>>, sort |-> <<>>, limit |-> 0]

NoResult == [exc |-> "pending", status |-> 0, detail |-> "", kudos |-> EmptyDoc]

IdleReq ==
    [pc |-> "idle", op |-> "none", limit |-> 0, body |-> EmptyBody, clock |-> 0,
     find |-> EmptyFind, key |-> <<>>, doc |-> EmptyDoc,
     tokens |-> 0, calls |-> 0, iam |-> 0,
     upstream |-> [status |-> 0, body |-> ""], result |-> NoResult]

\* a clamp that keeps the larger of the two
MinKeepsLarger(a, b) == IF b < a THEN a ELSE b

\* Python's min on two ints
Min(a, b) == IF b < a THEN b ELSE a

\* int(time.time()) at clock reading t
EpochSeconds(t) == t \div TicksPerSec

Pad2(n) == IF n < 10 THEN <<"0">> \o DecStr(n) ELSE DecStr(n)

\* time.strftime("%Y-%m-%dT%H:%M:%SZ", time.gmtime()) at clock reading t
\* (the clock of the model stays within the first day of the epoch)
CreatedAt(t) ==
    LET s == EpochSeconds(t) IN
    <<"1","9","7","0","-","0","1","-","0","1","T">>
        \o Pad2(s \div 3600) \o <<":">> \o Pad2((s % 3600) \div 60)
        \o <<":">> \o Pad2(s % 60) \o <<"Z">>

\* an identifier taken from the clock reading at its full resolution
KudosIdFromTicks(t) == <<"k","u","d","o","s","_">> \o DecStr(t)

\* f"kudos_{int(time.time())}" at clock reading t
KudosId(t) == <<"k","u","d","o","s","_">> \o DecStr(EpochSeconds(t))

\* req.values_tags or []
OrEmptyList(opt) == IF opt = None \/ opt[1] = <<>> THEN <<>> ELSE opt[1]

\* a document whose kudos_id is formatted from a second reading of the clock
KudosDocRereadsClock(body, t1, t2) ==
    [_id |-> KudosId(t1), kudos_id |-> KudosId(t2), created_at |-> CreatedAt(t2),
     approval_status |-> "pending",
     from_employee_id |-> body.from_employee_id,
     to_employee_id |-> body.to_employee_id,
     manager_id |-> body.manager_id, team_id |-> body.team_id,
     message |-> body.message, values_tags |-> OrEmptyList(body.values_tags),
     related_event_id |-> body.related_event_id]

\* the document create_kudos builds: id from the clock read at t1, created_at
\* from the clock read at t2
KudosDoc(body, t1, t2) ==
    [_id |-> KudosId(t1), kudos_id |-> KudosId(t1), created_at |-> CreatedAt(t2),
     approval_status |-> "pending",
     from_employee_id |-> body.from_employee_id,
     to_employee_id |-> body.to_employee_id,
     manager_id |-> body.manager_id, team_id |-> body.team_id,
     message |-> body.message, values_tags |-> OrEmptyList(body.values_tags),
     related_event_id |-> body.related_event_id]

\* cloudant_find and cloudant_put both start by awaiting get_iam_token():
\* the token request is posted
EnterGateway(q) == [q EXCEPT !.pc = "token", !.tokens = @ + 1]

recent_events(r, employee_id, limit) ==
    /\ req[r].pc = "idle"
    /\ req' = [req EXCEPT ![r] = EnterGateway(
                 [@ EXCEPT !.op = "recent_events", !.limit = limit,
                    !.find = [db |-> DB_EVENTS,
                              selector |-> << <<"employee_id", "$eq", employee_id>> >>,
                              sort |-> <<"timestamp", "desc">>,
                              limit |-> Min(limit, 50)]])]
    /\ UNCHANGED <<now, store, normVars, convVars>>

search_courses(r, skill_tag, limit) ==
    /\ req[r].pc = "idle"
    /\ req' = [req EXCEPT ![r] = EnterGateway(
                 [@ EXCEPT !.op = "search_courses", !.limit = limit,
                    !.find = [db |-> DB_COURSE,
                              selector |-> << <<"skill_tags_normalized", "$elemMatch", skill_tag>> >>,
                              sort |-> <<>>,
                              limit |-> Min(limit, 50)]])]
    /\ UNCHANGED <<now, store, normVars, convVars>>

pending_kudos(r, manager_id, limit) ==
    /\ req[r].pc = "idle"
    /\ req' = [req EXCEPT ![r] = EnterGateway(
                 [@ EXCEPT !.op = "pending_kudos", !.limit = limit,
                    !.find = [db |-> DB_KUDOS,
                              selector |-> << <<"manager_id", "$eq", manager_id>>,
                                              <<"approval_status", "$eq", "pending">> >>,
                              sort |-> <<"created_at", "desc">>,
                              limit |-> Min(limit, 50)]])]
    /\ UNCHANGED <<now, store, normVars, convVars>>

pulse_team(r, team_id, limit) ==
    /\ req[r].pc = "idle"
    /\ req' = [req EXCEPT ![r] = EnterGateway(
                 [@ EXCEPT !.op = "pulse_team", !.limit = limit,
                    !.find = [db |-> DB_PULSE,
                              selector |-> << <<"team_id", "$eq", team_id>> >>,
                              sort |-> <<"week_start", "desc">>,
                              limit |-> Min(limit, 52)]])]
    /\ UNCHANGED <<now, store, normVars, convVars>>

\* the clock is read twice (lines 116 and 120) and may advance in between
create_kudos(r, body, d) ==
    /\ req[r].pc = "idle"
    /\ now + d <= MaxClock
    /\ now' = now + d
    /\ req' = [req EXCEPT ![r] = EnterGateway(
                 [@ EXCEPT !.op = "create_kudos", !.body = body, !.clock = now,
                    !.key = KudosId(now),
                    !.doc = KudosDoc(body, now, now + d)])]
    /\ UNCHANGED <<store, normVars, convVars>>

FindOps == {"recent_events", "search_courses", "pending_kudos", "pulse_team"}

\* resp.raise_for_status() of get_iam_token: passes on a 2xx answer
RaiseForStatusPasses(status) == status >= 200 /\ status <= 299

\* What the API caller sees of an httpx.HTTPStatusError: no handler catches
\* it, so the framework answers 500 Internal Server Error.
UnhandledError ==
    [exc |-> "HTTPStatusError", status |-> 500,
     detail |-> "Internal Server Error", kudos |-> EmptyDoc]

\* raise HTTPException(status_code=resp.status_code, detail=resp.text)
HTTPException(status, text) ==
    [exc |-> "HTTPException", status |-> status, detail |-> text, kudos |-> EmptyDoc]

\* the identity endpoint answers call r's token request
get_iam_token(r, status) ==
    /\ req[r].pc = "token"
    /\ req' = [req EXCEPT ![r] =
                 IF RaiseForStatusPasses(status)
                 THEN [@ EXCEPT !.iam = status, !.pc = "store", !.calls = @ + 1]
                 ELSE [@ EXCEPT !.iam = status, !.pc = "done",
                                !.result = UnhandledError]]
    /\ UNCHANGED <<now, store, normVars, convVars>>

\* a find that takes every write-success code for success
FindReturnAcceptsWriteCodes(status, text) ==
    IF status \notin {200, 201, 202} THEN HTTPException(status, text)
    ELSE [exc |-> "none", status |-> 200, detail |-> text, kudos |-> EmptyDoc]

\* cloudant_find once the store has answered (lines 44-46); the handler
\* returns the store's JSON as it is
FindReturn(status, text) ==
    IF status # 200 THEN HTTPException(status, text)
    ELSE [exc |-> "none", status |-> 200, detail |-> text, kudos |-> EmptyDoc]

cloudant_find(r, status, text) ==
    /\ req[r].pc = "store"
    /\ req[r].op \in FindOps
    /\ req' = [req EXCEPT ![r] = [@ EXCEPT !.pc = "done",
                 !.upstream = [status |-> status, body |-> text],
                 !.result = FindReturn(status, text)]]
    /\ UNCHANGED <<now, store, normVars, convVars>>

PutSuccess == {200, 201, 202}

\* cloudant_put once the store has answered (lines 57-59), and create_kudos's
\* return {"ok": True, "result": result, "kudos": doc}
PutReturn(status, text, doc) ==
    IF status \notin PutSuccess THEN HTTPException(status, text)
    ELSE [exc |-> "none", status |-> 200, detail |-> text, kudos |-> doc]

\* The store's side of PUT {db}/{doc_id}: a 2xx answer says the document now
\* stands at that key, in place of what stood there; any other answer says
\* nothing was written.
StoreAfterPut(s, key, doc, status) ==
    IF status >= 200 /\ status <= 299
    THEN {e \in s : e.key # key} \cup {[key |-> key, doc |-> doc]}
    ELSE s

cloudant_put(r, status, text) ==
    /\ req[r].pc = "store"
    /\ req[r].op = "create_kudos"
    /\ store' = StoreAfterPut(store, req[r].key, req[r].doc, status)
    /\ req' = [req EXCEPT ![r] = [@ EXCEPT !.pc = "done",
                 !.upstream = [status |-> status, body |-> text],
                 !.result = PutReturn(status, text, req[r].doc)]]
    /\ UNCHANGED <<now, normVars, convVars>>

\* time passes
Tick ==
    /\ now < MaxClock
    /\ now' = now + 1
    /\ UNCHANGED <<store, req, normVars, convVars>>


\* The other components at rest, for a specification that does not run them.
ApiOff  == now = 0 /\ store = {} /\ req = <<>>
NormOff == val = None /\ fn = "none" /\ out = <<>>
ConvOff == dir = <<>> /\ pos = 0 /\ written = <<>> /\ run = "off" /\ build = "off"

Reqs == DOMAIN req

\* The API serving NCalls calls of any endpoint.
InitApi ==
    /\ now = 0 /\ store = {}
    /\ req = [r \in 1..NCalls |-> IdleReq]
    /\ NormOff /\ ConvOff

NextApi ==
    \/ \E r \in Reqs, limit \in Limits : recent_events(r, "E1", limit)
    \/ \E r \in Reqs, limit \in Limits : search_courses(r, "python", limit)
    \/ \E r \in Reqs, limit \in Limits : pending_kudos(r, "M1", limit)
    \/ \E r \in Reqs, limit \in Limits : pulse_team(r, "T1", limit)
    \/ \E r \in Reqs, body \in KudosBodies, d \in {0, 1} : create_kudos(r, body, d)
    \/ \E r \in Reqs, status \in IamStatuses : get_iam_token(r, status)
    \/ \E r \in Reqs, a \in StoreAnswers : cloudant_find(r, a.status, a.text)
    \/ \E r \in Reqs, a \in StoreAnswers : cloudant_put(r, a.status, a.text)
    \/ Tick

SpecApi == InitApi /\ [][NextApi]_vars

\* The API serving NWriters concurrent POST /kudos/create calls.
InitKudos ==
    /\ now = 0 /\ store = {}
    /\ req = [r \in 1..NWriters |-> IdleReq]
    /\ NormOff /\ ConvOff

NextKudos ==
    \/ \E r \in Reqs, body \in KudosBodies, d \in {0, 1} : create_kudos(r, body, d)
    \/ \E r \in Reqs, status \in IamStatuses : get_iam_token(r, status)
    \/ \E r \in Reqs, a \in StoreAnswers : cloudant_put(r, a.status, a.text)
    \/ Tick

SpecKudos == InitKudos /\ [][NextKudos]_vars

(***************************************************************************)
(* csv_to_json_cloudant.py: the list normalizers.                          *)
(* A cell is None (pd.isna: a missing value) or Some(text).                *)
(***************************************************************************)
Alphabet == {"a", " ", ",", "|", "[", "]", "\""}
Texts    == UNION {[1..n -> Alphabet] : n \in 0..MaxLen}
Cells    == {None} \cup {Some(t) : t \in Texts}

RECURSIVE LStrip(_)
LStrip(s) == IF s # <<>> /\ Head(s) = " " THEN LStrip(Tail(s)) ELSE s

RECURSIVE RStrip(_)
RStrip(s) ==
    IF s # <<>> /\ s[Len(s)] = " " THEN RStrip(SubSeq(s, 1, Len(s) - 1)) ELSE s

\* a strip that trims the left end only
StripLeftOnly(s) == LStrip(s)

\* str.strip()
Strip(s) == RStrip(LStrip(s))

RECURSIVE Split(_, _)
\* str.split(d) for a one-character separator d
Split(s, d) ==
    IF \A i \in 1..Len(s) : s[i] # d THEN <<s>>
    ELSE LET i == CHOOSE k \in 1..Len(s) :
                      s[k] = d /\ \A j \in 1..(k - 1) : s[j] # d
         IN  <<SubSeq(s, 1, i - 1)>> \o Split(SubSeq(s, i + 1, Len(s)), d)

\* [x.strip() for x in parts if x.strip()]
StripNonEmpty(parts) ==
    SelectSeq([i \in 1..Len(parts) |-> Strip(parts[i])], LAMBDA x : x # <<>>)

\* json.loads of a text over Alphabet.  A value is a string ("...", which no
\* character of Alphabet can escape) or an array; a result is
\*   [ok, next, str, rep, canon, items]
\* where rep is the element as the returned list holds it: the characters of
\* a string, or "#" and the canonical text of a nested array.
JsonFail == [ok |-> FALSE, next |-> 0, str |-> FALSE, rep |-> <<>>,
             canon |-> <<>>, items |-> <<>>]

RECURSIVE SkipWs(_, _)
SkipWs(s, i) == IF i <= Len(s) /\ s[i] = " " THEN SkipWs(s, i + 1) ELSE i

RECURSIVE JoinText(_, _)
\* d.join(parts)
JoinText(parts, d) ==
    IF parts = <<>> THEN <<>>
    ELSE IF Len(parts) = 1 THEN parts[1]
    ELSE parts[1] \o <<d>> \o JoinText(Tail(parts), d)

RECURSIVE JsonValue(_, _), JsonElems(_, _, _, _)
JsonValue(s, i) ==
    IF i > Len(s) THEN JsonFail
    ELSE IF s[i] = "\"" THEN
        IF \A j \in (i + 1)..Len(s) : s[j] # "\"" THEN JsonFail
        ELSE LET j == CHOOSE k \in (i + 1)..Len(s) :
                          s[k] = "\"" /\ \A m \in (i + 1)..(k - 1) : s[m] # "\""
                 t == SubSeq(s, i + 1, j - 1)
             IN  [ok |-> TRUE, next |-> j + 1, str |-> TRUE, rep |-> t,
                  canon |-> <<"\"">> \o t \o <<"\"">>, items |-> <<>>]
    ELSE IF s[i] = "[" THEN
        LET k == SkipWs(s, i + 1) IN
        IF k <= Len(s) /\ s[k] = "]"
        THEN [ok |-> TRUE, next |-> k + 1, str |-> FALSE, rep |-> <<"#", "[", "]">>,
              canon |-> <<"[", "]">>, items |-> <<>>]
        ELSE JsonElems(s, k, <<>>, <<>>)
    ELSE JsonFail

\* the elements of an array from position i on, reps and canons read so far
JsonElems(s, i, reps, canons) ==
    LET v == JsonValue(s, i) IN
    IF ~v.ok THEN JsonFail
    ELSE LET k  == SkipWs(s, v.next)
             rs == Append(reps, v.rep)
             cs == Append(canons, v.canon)
         IN  IF k > Len(s) THEN JsonFail
             ELSE IF s[k] = "," THEN JsonElems(s, SkipWs(s, k + 1), rs, cs)
             ELSE IF s[k] = "]" THEN
                 LET c == <<"[">> \o JoinText(cs, ",") \o <<"]">> IN
                 [ok |-> TRUE, next |-> k + 1, str |-> FALSE, rep |-> <<"#">> \o c,
                  canon |-> c, items |-> rs]
             ELSE JsonFail

\* json.loads(s) for a stripped s: the whole text must be one value
JsonLoads(s) ==
    LET v == JsonValue(s, 1) IN
    IF v.ok /\ v.next = Len(s) + 1 THEN v ELSE JsonFail

StartsEnds(s, a, b) == s # <<>> /\ s[1] = a /\ s[Len(s)] = b

to_list_commas(v) ==
    IF v = None THEN <<>>
    ELSE LET s == Strip(v[1]) IN
         IF s = <<>> THEN <<>>
         ELSE IF StartsEnds(s, "[", "]") /\ JsonLoads(s).ok /\ ~JsonLoads(s).str
              THEN JsonLoads(s).items
              ELSE StripNonEmpty(Split(s, ","))

to_list_pipes(v) ==
    IF v = None THEN <<>>
    ELSE LET s == Strip(v[1]) IN
         IF s = <<>> THEN <<>>
         ELSE StripNonEmpty(Split(s, "|"))

\* df[col].apply(to_list_commas) on one cell
ApplyCommas ==
    /\ fn = "none"
    /\ fn' = "to_list_commas"
    /\ out' = to_list_commas(val)
    /\ UNCHANGED <<val, apiVars, convVars>>

\* df[col].apply(to_list_pipes) on one cell
ApplyPipes ==
    /\ fn = "none"
    /\ fn' = "to_list_pipes"
    /\ out' = to_list_pipes(val)
    /\ UNCHANGED <<val, apiVars, convVars>>

InitNorm == val \in Cells /\ fn = "none" /\ out = <<>> /\ ApiOff /\ ConvOff

NextNorm == ApplyCommas \/ ApplyPipes

SpecNorm == InitNorm /\ [][NextNorm]_vars


(***************************************************************************)
(* csv_to_json_cloudant.py: the conversion driver.                         *)
(* A source file is its identifier column (the configured id_col, LogID    *)
(* for the work log): None when the header lacks it, else Some(cells), one *)
(* raw cell text per row, <<>> for an empty cell.  A value of a DataFrame  *)
(* or of a record is [t, n, s]: an int, a float, a str, NaN or None.       *)
(***************************************************************************)
IntV(n)   == [t |-> "int", n |-> n, s |-> <<>>]
FloatV(n) == [t |-> "float", n |-> n, s |-> <<>>]
StrV(s)   == [t |-> "str", n |-> 0, s |-> s]
NaN       == [t |-> "nan", n |-> 0, s |-> <<>>]
PyNone    == [t |-> "none", n |-> 0, s |-> <<>>]

\* CONFIG: the recognized file names, with id_col and transform
CONFIG ==
    [n \in {"Course_Catalog_Mock.csv", "Work_log_Mock.csv", "Kudos_log.csv",
            "Growth_Recos_log.csv", "Pulse_aggregates.csv"} |->
        CASE n = "Course_Catalog_Mock.csv" -> [id_col |-> Some("course_id"), transform |-> None]
          [] n = "Work_log_Mock.csv" -> [id_col |-> None, transform |-> Some("work_log_to_work_events")]
          [] n = "Kudos_log.csv" -> [id_col |-> Some("kudos_id"), transform |-> None]
          [] n = "Growth_Recos_log.csv" -> [id_col |-> Some("reco_id"), transform |-> None]
          [] n = "Pulse_aggregates.csv" -> [id_col |-> Some("pulse_id"), transform |-> None]]

\* the names DATA_DIR may hold, in the order sorted() gives them
FileOrder ==
    <<"Course_Catalog_Mock.csv", "Growth_Recos_log.csv", "Kudos_log.csv",
      "Notes.csv", "Pulse_aggregates.csv", "Work_log_Mock.csv">>
FileNames == {FileOrder[i] : i \in 1..Len(FileOrder)}

\* raw cell texts: empty, a number, not a number
CellTexts == {<<>>, <<"7">>, <<"1", "2">>, <<"x", "1">>}
Columns   == UNION {[1..n -> CellTexts] : n \in 0..MaxRows}
Files     == {[idcol |-> None]} \cup {[idcol |-> Some(c)] : c \in Columns}

IsDigits(t) == t # <<>> /\ \A i \in 1..Len(t) : \E d \in 1..10 : t[i] = DigitChars[d]

RECURSIVE ParseInt(_)
\* int(t) of a text of digits
ParseInt(t) ==
    IF t = <<>> THEN 0
    ELSE 10 * ParseInt(SubSeq(t, 1, Len(t) - 1))
         + ((CHOOSE d \in 1..10 : DigitChars[d] = t[Len(t)]) - 1)

\* pd.read_csv's dtype of a column: int64 when every cell is a number, float64
\* when the others are empty, else object
DType(cells) ==
    IF \A i \in 1..Len(cells) : cells[i] = <<>> \/ IsDigits(cells[i])
    THEN IF cells # <<>> /\ \A i \in 1..Len(cells) : cells[i] # <<>>
         THEN "int64" ELSE "float64"
    ELSE "object"

\* pd.read_csv: the values of a column
ReadColumn(cells) ==
    [i \in 1..Len(cells) |->
        IF cells[i] = <<>> THEN NaN
        ELSE CASE DType(cells) = "int64" -> IntV(ParseInt(cells[i]))
               [] DType(cells) = "float64" -> FloatV(ParseInt(cells[i]))
               [] OTHER -> StrV(cells[i])]

\* str(x) of a value, as Series.astype(str) applies it
AsTypeStr(x) ==
    CASE x.t = "int" -> StrV(DecStr(x.n))
      [] x.t = "float" -> StrV(DecStr(x.n) \o <<".", "0">>)
      [] x.t = "nan" -> StrV(<<"n", "a", "n">>)
      [] x.t = "none" -> StrV(<<"N", "o", "n", "e">>)
      [] OTHER -> StrV(x.s)

\* f"log_{int(x)}" if pd.notna(x) else None; int() of a text that is no
\* number raises ValueError
EventId(x) ==
    CASE x.t = "nan" -> [raises |-> FALSE, v |-> PyNone]
      [] x.t \in {"int", "float"} ->
            [raises |-> FALSE, v |-> StrV(<<"l", "o", "g", "_">> \o DecStr(x.n))]
      [] OTHER ->
            IF IsDigits(x.s)
            THEN [raises |-> FALSE, v |-> StrV(<<"l", "o", "g", "_">> \o DecStr(ParseInt(x.s)))]
            ELSE [raises |-> TRUE, v |-> PyNone]

\* df.where(pd.notnull(df), None) on one value of a column of dtype dt: NaN
\* becomes None, except that some pandas builds keep NaN in a float column
WhereNotNull(x, dt, b) ==
    IF x.t = "nan" /\ ~(dt = "float64" /\ b = "nan_kept") THEN PyNone ELSE x

Wrote(records) == [kind |-> "wrote", exc |-> "", records |-> records]
Skipped        == [kind |-> "skip", exc |-> "", records |-> <<>>]
Raised(e)      == [kind |-> "raise", exc |-> e, records |-> <<>>]

\* work_log_to_work_events and the records made of its frame: event_id and _id
work_log_to_work_events(file) ==
    IF file.idcol = None THEN Raised("KeyError")
    ELSE LET col == ReadColumn(file.idcol[1])
             ids == [i \in 1..Len(col) |-> EventId(col[i])]
         IN  IF \E i \in 1..Len(col) : ids[i].raises THEN Raised("ValueError")
             ELSE Wrote([i \in 1..Len(col) |->
                            [ident |-> ids[i].v, _id |-> ids[i].v]])

\* convert_csv(csv_path): what one call does
convert_csv(name, file, b) ==
    IF name \notin DOMAIN CONFIG THEN Skipped
    ELSE LET cfg == CONFIG[name] IN
         IF cfg.transform = Some("work_log_to_work_events")
         THEN work_log_to_work_events(file)
         ELSE IF cfg.id_col = None \/ file.idcol = None THEN Raised("ValueError")
         ELSE LET cells == file.idcol[1]
                  col   == ReadColumn(cells)
              IN  Wrote([i \in 1..Len(col) |->
                            [ident |-> WhereNotNull(col[i], DType(cells), b),
                             _id |-> AsTypeStr(col[i])]])

\* sorted(DATA_DIR.glob("*.csv"))
CsvFiles == SelectSeq(FileOrder, LAMBDA n : dir.files[n] # None)

\* main() up to the loop: the directory checks
MainStart ==
    /\ run = "init"
    /\ run' = IF ~dir.exists \/ CsvFiles = <<>> THEN "FileNotFoundError" ELSE "loop"
    /\ UNCHANGED <<dir, pos, written, build, apiVars, normVars>>

\* one turn of the loop: convert_csv on the next file; an exception ends main
ConvertNext ==
    /\ run = "loop" /\ pos < Len(CsvFiles)
    /\ LET name == CsvFiles[pos + 1]
           res  == convert_csv(name, dir.files[name][1], build)
       IN  /\ run' = IF res.kind = "raise" THEN res.exc ELSE "loop"
           /\ written' = IF res.kind = "wrote"
                         THEN [written EXCEPT ![name] = Some(res.records)]
                         ELSE written
           /\ pos' = IF res.kind = "raise" THEN pos ELSE pos + 1
    /\ UNCHANGED <<dir, build, apiVars, normVars>>

\* the loop is through
MainEnd ==
    /\ run = "loop" /\ pos = Len(CsvFiles)
    /\ run' = "done"
    /\ UNCHANGED <<dir, pos, written, build, apiVars, normVars>>

Dirs(most) ==
    {[exists |-> FALSE, files |-> [n \in FileNames |-> None]]} \cup
    UNION { {[exists |-> TRUE,
              files |-> [n \in FileNames |-> IF n \in S THEN Some(g[n]) ELSE None]] :
                g \in [S -> Files]} :
            S \in {T \in SUBSET FileNames : Cardinality(T) <= most} }

InitConv ==
    /\ dir \in Dirs(MaxFiles)
    /\ build \in {"nan_kept", "nan_to_none"}
    /\ pos = 0 /\ written = [n \in FileNames |-> None] /\ run = "init"
    /\ ApiOff /\ NormOff

NextConv == MainStart \/ ConvertNext \/ MainEnd

SpecConv == InitConv /\ [][NextConv]_vars


(***************************************************************************)
(* Claims about the API and the gateway.                                   *)
(***************************************************************************)
Started(r)   == req[r].pc # "idle"
Answered(r)  == req[r].pc = "done" /\ req[r].calls = 1
IsKudos(r)   == req[r].op = "create_kudos"
IsFind(r)    == req[r].op \in FindOps

\* the ceiling the specification gives each query operation
CeilingOf(op) == IF op = "pulse_team" THEN 52 ELSE 50

\* C1: for every query operation and every requested limit, the limit of the
\* payload handed to find never exceeds the collection's ceiling (50 for
\* events, courses and kudos, 52 for pulse) and equals the requested limit
\* whenever that is at or below the ceiling.
C1_LimitClamped ==
    \A r \in Reqs : (Started(r) /\ IsFind(r)) =>
        /\ req[r].find.limit <= CeilingOf(req[r].op)
        /\ (req[r].limit <= CeilingOf(req[r].op) => req[r].find.limit = req[r].limit)

\* C1 witness: /pulse/team with limit 100 reached the store with limit 52.
C1_Witness ==
    \E r \in Reqs : /\ req[r].op = "pulse_team" /\ req[r].limit = 100
                    /\ req[r].find.limit = 52 /\ req[r].pc = "store"

\* C2: when the store answers an upsert with a status outside {200, 201, 202}
\* or a find with a status other than 200, the call ends in a failure that
\* carries exactly that status and the answer's body unmodified, after one
\* token exchange and one store call (no retry), never in a success.
C2_StoreFailurePropagated ==
    \A r \in Reqs :
        ( /\ Answered(r)
          /\ \/ IsKudos(r) /\ req[r].upstream.status \notin {200, 201, 202}
             \/ IsFind(r) /\ req[r].upstream.status # 200 )
        => /\ req[r].result.exc = "HTTPException"
           /\ req[r].result.status = req[r].upstream.status
           /\ req[r].result.detail = req[r].upstream.body
           /\ req[r].tokens = 1 /\ req[r].calls = 1

\* C2 witness: an upsert answered 409 ended in a failure carrying 409 and the
\* store's body.
C2_Witness ==
    \E r \in Reqs : /\ Answered(r) /\ IsKudos(r)
                    /\ req[r].upstream.status = 409
                    /\ req[r].result.status = 409
                    /\ req[r].result.detail = "{\"error\":\"conflict\"}"

\* C7: every call that reaches the gateway performs at most one token
\* exchange and at most one store call, the store call starting only after the
\* token exchange succeeded; when the token exchange fails no store call is
\* issued and the failure the API caller sees carries the identity endpoint's
\* status.
C7_TokenThenStore ==
    \A r \in Reqs :
        /\ req[r].tokens <= 1 /\ req[r].calls <= 1
        /\ (req[r].calls = 1 => (req[r].tokens = 1 /\ req[r].iam = 200))
        /\ (req[r].pc = "done" /\ req[r].iam # 200) =>
               /\ req[r].calls = 0
               /\ req[r].result.exc \notin {"none", "pending"}
               /\ req[r].result.status = req[r].iam

\* the text "kudos_" followed by the decimal digits of n
IsKudosIdOf(id, n) ==
    /\ Len(id) > 6
    /\ SubSeq(id, 1, 6) = <<"k","u","d","o","s","_">>
    /\ SubSeq(id, 7, Len(id)) = DecStr(n)

\* the shape YYYY-MM-DDTHH:MM:SSZ
IsTimestamp(t) ==
    /\ Len(t) = 20
    /\ t[5] = "-" /\ t[8] = "-" /\ t[11] = "T" /\ t[14] = ":" /\ t[17] = ":"
    /\ t[20] = "Z"
    /\ \A i \in (1..19) \ {5, 8, 11, 14, 17} : \E d \in 1..10 : t[i] = DigitChars[d]

\* C3: every document create_kudos sends to the store, and every document
\* standing in the store, has approval_status "pending", a kudos_id that is
\* "kudos_" + the epoch second of its creation and is also its _id and the key
\* of the put, and a created_at timestamp; a call returns its document to the
\* caller only after the store accepted the write.
C3_KudosDocument ==
    /\ \A r \in Reqs : (Started(r) /\ IsKudos(r)) =>
          /\ req[r].doc.approval_status = "pending"
          /\ IsKudosIdOf(req[r].doc.kudos_id, req[r].clock \div TicksPerSec)
          /\ req[r].doc._id = req[r].doc.kudos_id
          /\ req[r].key = req[r].doc.kudos_id
          /\ IsTimestamp(req[r].doc.created_at)
          /\ req[r].result.exc = "none" =>
                /\ req[r].upstream.status \in {200, 201, 202}
                /\ req[r].result.kudos = req[r].doc
                /\ \E e \in store : e.key = req[r].key
    /\ \A e \in store :
          /\ e.doc.approval_status = "pending"
          /\ e.doc._id = e.key /\ e.doc.kudos_id = e.key
          /\ IsTimestamp(e.doc.created_at)

\* C3 witness: a call returned its pending document, the document stands in
\* the store under its key, and the clock has since passed to a later second.
C3_Witness ==
    \E r \in Reqs : /\ IsKudos(r) /\ req[r].result.exc = "none"
                    /\ req[r].result.kudos.approval_status = "pending"
                    /\ [key |-> req[r].key, doc |-> req[r].doc] \in store
                    /\ ~IsKudosIdOf(req[r].key, now \div TicksPerSec)

\* call r's upsert is answered in this step, at an id where a document stands
SecondUpsertAnswered(r) ==
    /\ IsKudos(r) /\ req[r].pc = "store" /\ req'[r].pc = "done"
    /\ \E e \in store : e.key = req[r].key

\* C4: an upsert to an id at which an earlier upsert left a document, answered
\* by a store that is up (no 5xx), succeeds and leaves the store with exactly
\* one document at that id, equal to the payload of this second call.
C4_SecondUpsertReplaces ==
    [][\A r \in Reqs :
          (SecondUpsertAnswered(r) /\ req'[r].upstream.status < 500) =>
              /\ req'[r].result.exc = "none"
              /\ {e \in store' : e.key = req[r].key}
                    = {[key |-> req[r].key, doc |-> req[r].doc]}]_vars

SameSecond(r1, r2) ==
    /\ r1 # r2 /\ Started(r1) /\ Started(r2) /\ IsKudos(r1) /\ IsKudos(r2)
    /\ req[r1].clock \div TicksPerSec = req[r2].clock \div TicksPerSec

Blank(t) == \A i \in 1..Len(t) : t[i] = " "

\* a missing, empty or whitespace-only cell
Missing(v) == v = None \/ Blank(v[1])

\* t without its leading and trailing spaces
Trimmed(t) ==
    IF Blank(t) THEN <<>>
    ELSE LET lo == CHOOSE i \in 1..Len(t) : t[i] # " " /\ \A j \in 1..(i - 1) : t[j] = " "
             hi == CHOOSE i \in 1..Len(t) : t[i] # " " /\ \A j \in (i + 1)..Len(t) : t[j] = " "
         IN  SubSeq(t, lo, hi)

IsSubstring(t, u) ==
    \E i \in 1..(Len(u) - Len(t) + 1) : SubSeq(u, i, i + Len(t) - 1) = t

\* the positions of t at which a token starts: the first non-space character
\* after the start of the text or after a separator
TokenStarts(t, d) ==
    {i \in 1..Len(t) :
        /\ t[i] # " " /\ t[i] # d
        /\ \A j \in 1..(i - 1) : (\A k \in j..(i - 1) : t[k] # d) => t[j] = " "}

\* list holds the tokens of the d-separated text t: trimmed, none empty, in
\* the order of the text
TokensOf(t, d, list) ==
    /\ \A i \in 1..Len(list) :
          /\ list[i] # <<>> /\ list[i][1] # " " /\ list[i][Len(list[i])] # " "
          /\ \A k \in 1..Len(list[i]) : list[i][k] # d
          /\ IsSubstring(list[i], t)
    /\ SelectSeq(JoinText(list, " "), LAMBDA c : c # " ")
          = SelectSeq(t, LAMBDA c : c # " " /\ c # d)
    /\ Len(list) = Cardinality(TokenStarts(t, d))

\* the cell's text, trimmed, is a serialized (JSON) list
IsSerializedList(v) ==
    /\ v # None
    /\ StartsEnds(Trimmed(v[1]), "[", "]")
    /\ JsonLoads(Trimmed(v[1])).ok

ListItems(v) == JsonLoads(Trimmed(v[1])).items

IsText(item) == item = <<>> \/ item[1] # "#"

DelimOf(f) == IF f = "to_list_pipes" THEN "|" ELSE ","

Normalize(f, v) == IF f = "to_list_pipes" THEN to_list_pipes(v) ELSE to_list_commas(v)

\* t without the spaces that stand outside its quoted strings
RECURSIVE Compact(_, _)
Compact(t, inString) ==
    IF t = <<>> THEN <<>>
    ELSE IF Head(t) = "\"" THEN <<Head(t)>> \o Compact(Tail(t), ~inString)
    ELSE IF Head(t) = " " /\ ~inString THEN Compact(Tail(t), inString)
    ELSE <<Head(t)>> \o Compact(Tail(t), inString)

\* a returned list written back as JSON text
DumpList(list) ==
    <<"[">> \o JoinText([i \in 1..Len(list) |->
                            IF IsText(list[i]) THEN <<"\"">> \o list[i] \o <<"\"">>
                            ELSE Tail(list[i])], ",") \o <<"]">>

\* every item is a non-empty text without surrounding spaces or separator
CleanTokens(list, d) ==
    \A i \in 1..Len(list) :
        /\ list[i] # <<>> /\ IsText(list[i])
        /\ list[i][1] # " " /\ list[i][Len(list[i])] # " "
        /\ \A k \in 1..Len(list[i]) : list[i][k] # d

Ended == run \in {"done", "ValueError", "KeyError", "FileNotFoundError"}

Present(n)    == dir.files[n] # None
Recognized(n) == n \in DOMAIN CONFIG
Rank(n)       == CHOOSE i \in 1..Len(FileOrder) : FileOrder[i] = n
WorkLog       == "Work_log_Mock.csv"

\* a recognized file whose configured identifier column is not in its data
LacksIdColumn(n) ==
    /\ Present(n) /\ Recognized(n) /\ CONFIG[n].id_col # None
    /\ dir.files[n][1].idcol = None

\* a log identifier cell that is missing or not a number
BadLogId(c) == c = <<>> \/ ~IsDigits(c)

\* a recognized file with nothing wrong in it
Sound(n) ==
    /\ Present(n) /\ Recognized(n) /\ dir.files[n][1].idcol # None
    /\ n = WorkLog => \A i \in 1..Len(dir.files[n][1].idcol[1]) :
                          ~BadLogId(dir.files[n][1].idcol[1][i])

\* the text form of a record's value; an absent value has an absent text
TextOf(x) ==
    CASE x.t = "int" -> StrV(DecStr(x.n))
      [] x.t = "float" -> StrV(DecStr(x.n) \o <<".", "0">>)
      [] x.t = "nan" -> StrV(<<"n", "a", "n">>)
      [] x.t = "none" -> PyNone
      [] OTHER -> x

\* C5: every document the conversion emits has a store key (_id) equal to the
\* text form of its identity field (the configured id column; event_id for
\* work events), also for rows whose identifier cell is numeric or missing.
C5_StoreKeyIsIdentity ==
    \A n \in DOMAIN written : written[n] # None =>
        \A i \in 1..Len(written[n][1]) :
            written[n][1][i]._id = TextOf(written[n][1][i].ident)

\* C9: when the configured identifier column of a recognized file is absent
\* from its data, the run ends with no artifact for that file and with every
\* later sound file of the sorted list converted and written.
C9_MissingIdColumnSkipsFile ==
    Ended =>
        \A n \in FileNames : LacksIdColumn(n) =>
            /\ written[n] = None
            /\ \A m \in FileNames : (Rank(m) > Rank(n) /\ Sound(m)) => written[m] # None

\* C10: when every other file is sound, the run ends with the work log
\* converted: one record per row, and a row whose log identifier is missing
\* or not a number has an absent event_id and an absent store key.
C10_BadLogIdKeepsBatch ==
    ( /\ Ended /\ Present(WorkLog) /\ dir.files[WorkLog][1].idcol # None
      /\ \A n \in FileNames \ {WorkLog} : Present(n) => (~Recognized(n) \/ Sound(n)) )
    => /\ run = "done"
       /\ written[WorkLog] # None
       /\ Len(written[WorkLog][1]) = Len(dir.files[WorkLog][1].idcol[1])
       /\ \A i \in 1..Len(written[WorkLog][1]) :
             BadLogId(dir.files[WorkLog][1].idcol[1][i]) =>
                 /\ written[WorkLog][1][i].ident = PyNone
                 /\ written[WorkLog][1][i]._id = PyNone


====
